---- MODULE Spec2Model ----
(***************************************************************************)
(* State-machine model of pyod/models/so_gaal.py: the SO_GAAL detector,    *)
(* its fit training loop and decision_function.                            *)
(*                                                                         *)
(* Abstractions.  A matrix is its shape (rows, cols) and whether all its   *)
(* entries are finite.  A network is the session (fit call) that built it  *)
(* and the number of optimizer steps applied to it since construction;     *)
(* two networks have equal parameters iff these agree.  A loss value is    *)
(* the pair of network versions and the latent batch it was computed from; *)
(* the float recorded in the history keeps the network versions only.  A   *)
(* .grad accumulator is the set of backward passes summed into it.         *)
(***************************************************************************)
EXTENDS Integers, Sequences, FiniteSets, TLC

(* ------------------------------ bounds --------------------------------- *)
MaxStopEpochs == 2
MaxFits == 2
MaxScores == 2
MaxCols == 2
MaxNoise == 2
MaxLatent == 2
MaxBatchRows == 1

(* ------------------------- program constants --------------------------- *)
BatchCap == 500

RowChoices == {0, 1, BatchCap, BatchCap + 1, 2 * BatchCap}

NoiseIds == 1..MaxNoise

Matrix == [rows : RowChoices, cols : 0..MaxCols, finite : BOOLEAN]

None == [none |-> TRUE]

Min(a, b) == IF a < b THEN a ELSE b

(* a validation that does not look at the values *)
check_array_shape_only(X) == X.rows >= 1 /\ X.cols >= 1

(* check_array: two-dimensional, at least one sample and one feature,      *)
(* all entries finite.                                                     *)
check_array(X) == X.rows >= 1 /\ X.cols >= 1 /\ X.finite

(* math.ceil(math.sqrt(data_size)) *)
CeilSqrt(n) == CHOOSE h \in 0..n : h * h >= n /\ (h = 0 \/ (h - 1) * (h - 1) < n)

(* Discriminator(latent_size, data_size), freshly constructed *)
NewDiscriminator(latent_size, data_size, sess) ==
    [latent_size |-> latent_size, hidden |-> CeilSqrt(data_size),
     session |-> sess, steps |-> 0]

(* Generator(latent_size), freshly constructed *)
NewGenerator(latent_size, sess) ==
    [latent_size |-> latent_size, session |-> sess, steps |-> 0]

(* optimizer.step(): the parameters move to the next version *)
OptimizerStep(net) == [net EXCEPT !.steps = @ + 1]

(* a discriminator step that is never applied *)
optimizer_d_step_missing(net) == net

(* optimizer_d.zero_grad(); d_loss.backward(); optimizer_d.step() *)
optimizer_d_step(net) == OptimizerStep(net)

(* a generator step that is never applied *)
optimizer_g_step_missing(net) == net

(* optimizer_g.zero_grad(); g_loss.backward(); optimizer_g.step() *)
optimizer_g_step(net) == OptimizerStep(net)

(* epochs = self.stop_epochs * 3 *)
TotalEpochs(se) == se * 3

(* batch_size=min(500, data_size) *)
LoaderBatchSize(data_size) == Min(BatchCap, data_size)

(* a loader that yields every remaining row as one batch *)
NextBatchRows_all(bs, left) == left

(* the DataLoader yields min(batch_size, rows left) rows (drop_last=False) *)
NextBatchRows(bs, left) == Min(bs, left)

(* a generator branch that trains whatever the flag says *)
GeneratorTrains_always(stopFlag) == TRUE

(* if stop == 0: the generator is trained in this batch *)
GeneratorTrains(stopFlag) == stopFlag = 0

(* if epoch + 1 > self.stop_epochs: stop = 1 *)
StopAfterEpoch(ep, se) == ep + 1 > se

(* criterion(input, target): BCELoss needs target and input of one size *)
CriterionAccepts(inputRows, targetRows) == inputRows = targetRows

(* Discriminator.forward on a matrix: one output row per input row, one    *)
(* column; the values are fixed by the parameters and the input.           *)
DiscriminatorForward(net, X) ==
    [rows |-> X.rows, cols |-> 1, session |-> net.session,
     steps |-> net.steps, input |-> X]

(* .detach().numpy().ravel(): a flat vector of rows * cols entries *)
Ravel(out) ==
    [len |-> out.rows * out.cols, session |-> out.session,
     steps |-> out.steps, input |-> out.input]

(* self.discriminator(torch.tensor(X)).detach().numpy().ravel() in fit *)
FitScores(net, X) == Ravel(DiscriminatorForward(net, X))

(* scoring with the parameters the discriminator was constructed with *)
PredScores_fresh(net, X) ==
    Ravel(DiscriminatorForward([net EXCEPT !.steps = 0], X))

(* the same expression in decision_function *)
PredScores(net, X) == Ravel(DiscriminatorForward(net, X))

(* a scoring pass that also takes an optimizer step *)
AfterForward_trains(net) == OptimizerStep(net)

(* the discriminator after the forward pass of decision_function: no      *)
(* backward pass and no optimizer step follow it                          *)
AfterForward(net) == net

(* self._process_decision_scores(): threshold_ and labels_ are derived    *)
(* from decision_scores_                                                  *)
process_decision_scores(scores) ==
    [threshold_ |-> [of |-> scores], labels_ |-> [of |-> scores]]

(* a fitted check that lets every detector through *)
IsFitted_always(disc) == TRUE

(* check_is_fitted(self, ['discriminator']) *)
IsFitted(disc) == disc # None

(* the discriminator loss of a batch: criterion(D(real), 1) +             *)
(* criterion(D(G(noise)), 0), computed before the discriminator step      *)
DiscriminatorLoss(z, disc, gen) ==
    [noise |-> z, d |-> disc.steps, g |-> gen.steps]

(* a generator loss taken from outputs_fake, computed before the step *)
GeneratorLoss_reuse(z, disc, gen) ==
    [noise |-> z, d |-> disc.steps - 1, g |-> gen.steps]

(* criterion(self.discriminator(self.generator(noise)), trick_labels) *)
GeneratorLoss(z, disc, gen) ==
    [noise |-> z, d |-> disc.steps, g |-> gen.steps]

(* loss.item(): the float that goes into the history *)
Item(loss) == [d |-> loss.d, g |-> loss.g]

(* a history list that keeps only its latest entry *)
RecordLoss_overwrite(seq, v) == <<v>>

(* self.train_history[...].append(loss.item()) *)
RecordLoss(seq, v) == Append(seq, v)

EmptyHistory == [discriminator_loss |-> <<>>, generator_loss |-> <<>>]

(* a history carried over from the previous fit call *)
ResetHistory_keep(old) == IF old = None THEN EmptyHistory ELSE old

(* self.train_history = defaultdict(list) *)
ResetHistory(old) == EmptyHistory

(* a zero_grad that leaves the accumulated gradient in place *)
zero_grad_missing(grads) == grads

(* optimizer.zero_grad() *)
zero_grad(grads) == {}

(* loss.backward(): the pass is summed into the accumulator *)
backward(grads, pass) == grads \cup {pass}

(* ----------------- Generator, with its numeric parameters --------------- *)
(* Values are integers; a bias of nn.Linear starts anywhere in the         *)
(* interval (-1/sqrt(d), 1/sqrt(d)), represented by its sign.              *)
BiasChoices == {-1, 0, 1}

RECURSIVE SumTo(_, _)
SumTo(f, n) == IF n = 0 THEN 0 ELSE f[n] + SumTo(f, n - 1)

(* nn.init.eye_ *)
Eye(d) == [i \in 1..d |-> [j \in 1..d |-> IF i = j THEN 1 ELSE 0]]

(* nn.Linear.forward on one row: W x + b *)
Linear(layer, x) ==
    [i \in DOMAIN layer.bias |->
        SumTo([j \in DOMAIN x |-> layer.weight[i][j] * x[j]], Len(x))
          + layer.bias[i]]

(* F.relu *)
Relu(v) == [i \in DOMAIN v |-> IF v[i] > 0 THEN v[i] ELSE 0]

(* Generator.__init__: two Linear layers, weights set to the identity,    *)
(* biases as nn.Linear drew them                                          *)
GeneratorInit(d, b1, b2) ==
    [latent_size |-> d,
     layer1 |-> [weight |-> Eye(d), bias |-> b1],
     layer2 |-> [weight |-> Eye(d), bias |-> b2]]

(* Generator.forward on a batch of rows *)
GeneratorForward(net, batch) ==
    [r \in DOMAIN batch |->
        Relu(Linear(net.layer2, Relu(Linear(net.layer1, batch[r]))))]

Vectors(d, S) == [1..d -> S]

Batches(d, S) == UNION {[1..n -> Vectors(d, S)] : n \in 1..MaxBatchRows}

(* ------------------------------- state --------------------------------- *)
VARIABLES
    stop_epochs,        \* self.stop_epochs
    discriminator,      \* self.discriminator, None while the attribute is unset
    generator,          \* self.generator
    train_history,      \* self.train_history
    decision_scores_,   \* self.decision_scores_
    threshold_,         \* self.threshold_
    labels_,            \* self.labels_
    pc,                 \* position of the running fit call, "idle" outside
    fitX,               \* X of the current / latest fit call
    stop,               \* local stop
    epochs,             \* local epochs
    epoch,              \* loop variable epoch
    left,               \* rows the dataloader has not yet yielded this epoch
    batch_size,         \* local batch_size
    trick_labels,       \* rows of local trick_labels, -1 while unbound
    noise,              \* latent batch of the current batch
    d_loss,             \* local d_loss
    g_loss,             \* local g_loss
    d_grad,             \* .grad of the discriminator parameters
    g_grad,             \* .grad of the generator parameters
    fitCalls,           \* number of fit calls
    scoreCalls,         \* number of decision_function calls
    lastCall,           \* the call that ended last
    outcome,            \* how it ended
    result,             \* what decision_function returned
    seen,               \* what decision_function returned since the last fit
    dStepsInBatch,      \* optimizer_d.step() calls in the current batch
    gStepsInBatch,      \* optimizer_g.step() calls in the current batch
    batchesDrawn,       \* batches drawn from the dataloader in this fit
    epochsRun,          \* epochs of this fit whose batch loop ran to its end
    trace,              \* the steps taken in the current batch, in order
    applied,            \* the gradient the latest step of each optimizer used
    snaps,              \* both networks at the end of each epoch of this fit
    scoreWrites,        \* assignments to decision_scores_ in this fit call
    fitState,           \* how the latest fit call stands
    fitsCompleted,      \* fit calls that returned
    gen_net,            \* a Generator with numeric parameters
    gen_in,             \* the latent batch given to it, <<>> before the call
    gen_out             \* what its forward returned

vars == <<stop_epochs, discriminator, generator, train_history,
          decision_scores_, threshold_, labels_, pc, fitX, stop, epochs,
          epoch, left, batch_size, trick_labels, noise, d_loss, g_loss,
          d_grad, g_grad, fitCalls, scoreCalls, lastCall, outcome, result,
          seen, dStepsInBatch, gStepsInBatch, batchesDrawn, epochsRun, trace,
          applied, snaps, scoreWrites, fitState, fitsCompleted, gen_net,
          gen_in, gen_out>>

detector == <<stop_epochs, discriminator, generator, train_history,
              decision_scores_>>
processed == <<threshold_, labels_>>
grads == <<d_grad, g_grad>>
locals == <<stop, epochs, epoch, left, batch_size, trick_labels, noise>>
losses == <<d_loss, g_loss>>
ghosts == <<dStepsInBatch, gStepsInBatch, batchesDrawn, epochsRun>>
probe == <<gen_net, gen_in, gen_out>>

(* SO_GAAL.__init__ *)
Init ==
    /\ stop_epochs \in 0..MaxStopEpochs
    /\ discriminator = None
    /\ generator = None
    /\ train_history = None
    /\ decision_scores_ = None
    /\ threshold_ = None /\ labels_ = None
    /\ pc = "idle"
    /\ fitX = None
    /\ stop = 0 /\ epochs = 0 /\ epoch = 0 /\ left = 0 /\ batch_size = 0
    /\ trick_labels = -1
    /\ noise = 0
    /\ d_loss = None /\ g_loss = None
    /\ d_grad = {} /\ g_grad = {}
    /\ fitCalls = 0 /\ scoreCalls = 0
    /\ lastCall = "init" /\ outcome = "ok" /\ result = None
    /\ seen = {}
    /\ dStepsInBatch = 0 /\ gStepsInBatch = 0
    /\ batchesDrawn = 0 /\ epochsRun = 0
    /\ trace = <<>>
    /\ applied = [d |-> {}, g |-> {}]
    /\ snaps = <<>>
    /\ scoreWrites = 0
    /\ fitState = "never" /\ fitsCompleted = 0
    /\ gen_net = None /\ gen_in = <<>> /\ gen_out = <<>>

(* where the loop goes when `for epoch in range(epochs)` is (re)entered *)
LoopEntry(ep, eps) == IF ep < eps THEN "batch" ELSE "score"

(* fit, line 127: check_array raises, nothing of the call is kept *)
FitInvalid(X) ==
    /\ pc = "idle"
    /\ fitCalls < MaxFits
    /\ ~check_array(X)
    /\ lastCall' = "fit" /\ outcome' = "ValueError" /\ result' = None
    /\ fitCalls' = fitCalls + 1
    /\ fitState' = "invalid"
    /\ UNCHANGED <<detector, processed, grads, pc, fitX, locals, losses,
                   scoreCalls, seen, ghosts, trace, applied, snaps,
                   scoreWrites, fitsCompleted, probe>>

(* fit, lines 127-149: validation passes, networks, optimizers, loader *)
FitBegin(X) ==
    /\ pc = "idle"
    /\ fitCalls < MaxFits
    /\ check_array(X)
    /\ fitX' = X
    /\ fitCalls' = fitCalls + 1
    /\ stop' = 0
    /\ epochs' = TotalEpochs(stop_epochs)
    /\ train_history' = ResetHistory(train_history)
    /\ discriminator' = NewDiscriminator(X.cols, X.rows, fitCalls + 1)
    /\ generator' = NewGenerator(X.cols, fitCalls + 1)
    /\ d_grad' = {} /\ g_grad' = {}
    /\ epoch' = 0
    /\ left' = X.rows
    /\ pc' = LoopEntry(0, TotalEpochs(stop_epochs))
    /\ batch_size' = 0 /\ trick_labels' = -1 /\ noise' = 0
    /\ d_loss' = None /\ g_loss' = None
    /\ dStepsInBatch' = 0 /\ gStepsInBatch' = 0
    /\ batchesDrawn' = 0 /\ epochsRun' = 0
    /\ trace' = <<>>
    /\ applied' = [d |-> {}, g |-> {}]
    /\ snaps' = <<>>
    /\ scoreWrites' = 0
    /\ seen' = {}
    /\ lastCall' = "fit" /\ outcome' = "running" /\ result' = None
    /\ fitState' = "running"
    /\ UNCHANGED <<stop_epochs, decision_scores_, processed, scoreCalls,
                   fitsCompleted, probe>>

(* lines 152-175: draw a batch, train the discriminator on it *)
TrainDiscriminator(z) ==
    /\ pc = "batch"
    /\ left > 0
    /\ batch_size' = NextBatchRows(LoaderBatchSize(fitX.rows), left)
    /\ left' = left - batch_size'
    /\ noise' = z
    /\ d_loss' = DiscriminatorLoss(z, discriminator, generator)
    /\ d_grad' = backward(zero_grad(d_grad), <<"d_loss", batchesDrawn + 1>>)
    /\ g_grad' = backward(g_grad, <<"d_loss", batchesDrawn + 1>>)
    /\ applied' = [applied EXCEPT !.d = d_grad']
    /\ discriminator' = optimizer_d_step(discriminator)
    /\ train_history' =
         [train_history EXCEPT !.discriminator_loss =
            RecordLoss(@, Item(d_loss'))]
    /\ trace' = <<"noise", "d_loss", "d_step">>
    /\ dStepsInBatch' = 1
    /\ gStepsInBatch' = 0
    /\ batchesDrawn' = batchesDrawn + 1
    /\ pc' = "gen"
    /\ UNCHANGED <<stop_epochs, generator, decision_scores_, processed, fitX,
                   stop, epochs, epoch, trick_labels, g_loss, fitCalls,
                   scoreCalls, lastCall, outcome, result, seen, epochsRun,
                   snaps, scoreWrites, fitState, fitsCompleted, probe>>

(* the generator loss: criterion(D(G(noise)), trick_labels) *)
GLoss == GeneratorLoss(noise, discriminator, generator)

(* lines 177-188: growing phase, the generator is trained *)
TrainGenerator ==
    /\ pc = "gen"
    /\ GeneratorTrains(stop)
    /\ trick_labels' = batch_size
    /\ g_loss' = GLoss
    /\ g_grad' = backward(zero_grad(g_grad), <<"g_loss", batchesDrawn>>)
    /\ d_grad' = backward(d_grad, <<"g_loss", batchesDrawn>>)
    /\ applied' = [applied EXCEPT !.g = g_grad']
    /\ generator' = optimizer_g_step(generator)
    /\ gStepsInBatch' = gStepsInBatch + 1
    /\ train_history' =
         [train_history EXCEPT !.generator_loss = RecordLoss(@, Item(GLoss))]
    /\ trace' = trace \o <<"g_loss", "g_step">>
    /\ pc' = "batch"
    /\ UNCHANGED <<stop_epochs, discriminator, decision_scores_, processed,
                   fitX, stop, epochs, epoch, left, batch_size, noise, d_loss,
                   fitCalls, scoreCalls, lastCall, outcome, result, seen,
                   dStepsInBatch, batchesDrawn, epochsRun, snaps, scoreWrites,
                   fitState, fitsCompleted, probe>>

(* lines 189-193: the generator loss is evaluated against the trick_labels *)
(* left by the last trained batch, and recorded                            *)
EvalGenerator ==
    /\ pc = "gen"
    /\ ~GeneratorTrains(stop)
    /\ CriterionAccepts(batch_size, trick_labels)
    /\ g_loss' = GLoss
    /\ train_history' =
         [train_history EXCEPT !.generator_loss = RecordLoss(@, Item(GLoss))]
    /\ trace' = trace \o <<"g_loss">>
    /\ pc' = "batch"
    /\ UNCHANGED <<stop_epochs, discriminator, generator, decision_scores_,
                   processed, grads, fitX, locals, d_loss, fitCalls,
                   scoreCalls, lastCall, outcome, result, seen, ghosts,
                   applied, snaps, scoreWrites, fitState, fitsCompleted,
                   probe>>

(* lines 190-192: criterion raises ValueError, fit is left by the          *)
(* exception and the tensors of the batch are released                     *)
EvalGeneratorRaises ==
    /\ pc = "gen"
    /\ ~GeneratorTrains(stop)
    /\ ~CriterionAccepts(batch_size, trick_labels)
    /\ pc' = "idle"
    /\ outcome' = "ValueError"
    /\ fitState' = "raised"
    /\ noise' = 0 /\ d_loss' = None /\ g_loss' = None
    /\ UNCHANGED <<detector, processed, grads, fitX, stop, epochs, epoch,
                   left, batch_size, trick_labels, fitCalls, scoreCalls,
                   lastCall, result, seen, ghosts, trace, applied, snaps,
                   scoreWrites, fitsCompleted, probe>>

(* lines 195-196 and the next turn of `for epoch in range(epochs)` *)
EpochEnd ==
    /\ pc = "batch"
    /\ left = 0
    /\ stop' = IF StopAfterEpoch(epoch, stop_epochs) THEN 1 ELSE stop
    /\ epoch' = epoch + 1
    /\ epochsRun' = epochsRun + 1
    /\ snaps' = Append(snaps, [g |-> generator, d |-> discriminator])
    /\ left' = fitX.rows
    /\ pc' = LoopEntry(epoch + 1, epochs)
    /\ UNCHANGED <<detector, processed, grads, fitX, epochs, batch_size,
                   trick_labels, noise, losses, fitCalls, scoreCalls,
                   lastCall, outcome, result, seen, dStepsInBatch,
                   gStepsInBatch, batchesDrawn, trace, applied, scoreWrites,
                   fitState, fitsCompleted, probe>>

(* lines 198-201; on return the tensors of the last batch are released *)
FitFinish ==
    /\ pc = "score"
    /\ decision_scores_' = FitScores(discriminator, fitX)
    /\ scoreWrites' = scoreWrites + 1
    /\ threshold_' = process_decision_scores(decision_scores_').threshold_
    /\ labels_' = process_decision_scores(decision_scores_').labels_
    /\ pc' = "idle"
    /\ outcome' = "ok"
    /\ fitState' = "done"
    /\ fitsCompleted' = fitsCompleted + 1
    /\ noise' = 0 /\ d_loss' = None /\ g_loss' = None
    /\ UNCHANGED <<stop_epochs, discriminator, generator, train_history,
                   grads, fitX, stop, epochs, epoch, left, batch_size,
                   trick_labels, fitCalls, scoreCalls, lastCall, result, seen,
                   ghosts, trace, applied, snaps, probe>>

(* decision_function, lines 221-225 *)
decision_function(X) ==
    /\ pc = "idle"
    /\ scoreCalls < MaxScores
    /\ scoreCalls' = scoreCalls + 1
    /\ lastCall' = "decision_function"
    /\ IF ~IsFitted(discriminator)
         THEN outcome' = "NotFittedError" /\ result' = None
              /\ UNCHANGED <<discriminator, seen>>
       ELSE IF ~check_array(X)
         THEN outcome' = "ValueError" /\ result' = None
              /\ UNCHANGED <<discriminator, seen>>
       ELSE IF discriminator = None
         THEN outcome' = "AttributeError" /\ result' = None
              /\ UNCHANGED <<discriminator, seen>>
       ELSE IF X.cols # discriminator.latent_size
         THEN outcome' = "RuntimeError" /\ result' = None
              /\ UNCHANGED <<discriminator, seen>>
       ELSE /\ outcome' = "ok"
            /\ result' = [arg |-> X, value |-> PredScores(discriminator, X)]
            /\ discriminator' = AfterForward(discriminator)
            /\ seen' = seen \cup {result'}
    /\ UNCHANGED <<stop_epochs, generator, train_history, decision_scores_,
                   processed, grads, pc, fitX, locals, losses, fitCalls,
                   ghosts, trace, applied, snaps, scoreWrites, fitState,
                   fitsCompleted, probe>>

Next ==
    \/ \E X \in Matrix : FitInvalid(X)
    \/ \E X \in Matrix : FitBegin(X)
    \/ \E z \in NoiseIds : TrainDiscriminator(z)
    \/ TrainGenerator
    \/ EvalGenerator
    \/ EvalGeneratorRaises
    \/ EpochEnd
    \/ FitFinish
    \/ \E X \in Matrix : decision_function(X)

Spec == Init /\ [][Next]_vars

(* ------------- the Generator on its own: construct, then run ----------- *)
mainvars == <<detector, processed, grads, pc, fitX, locals, losses, fitCalls,
              scoreCalls, lastCall, outcome, result, seen, ghosts, trace,
              applied, snaps, scoreWrites, fitState, fitsCompleted>>

(* Generator(latent_size), lines 23-28 *)
ConstructGenerator(d, b1, b2) ==
    /\ gen_net = None
    /\ gen_net' = GeneratorInit(d, b1, b2)
    /\ UNCHANGED <<mainvars, gen_in, gen_out>>

(* generator(x), lines 30-33: the first call on the fresh Generator *)
ForwardGenerator(x) ==
    /\ gen_net # None
    /\ gen_out = <<>>
    /\ gen_in' = x
    /\ gen_out' = GeneratorForward(gen_net, x)
    /\ UNCHANGED <<mainvars, gen_net>>

(* the latent batches that fit the constructed Generator *)
LatentBatches ==
    IF gen_net = None THEN {} ELSE Batches(gen_net.latent_size, {0, 1})

NextGenerator ==
    \/ \E d \in 1..MaxLatent :
         \E b1 \in Vectors(d, BiasChoices), b2 \in Vectors(d, BiasChoices) :
            ConstructGenerator(d, b1, b2)
    \/ \E x \in LatentBatches : ForwardGenerator(x)

SpecGenerator == Init /\ [][NextGenerator]_vars

(* ------------------------------ claims --------------------------------- *)

(* a batch of the running fit has just been processed, in epoch `epoch` *)
BatchJustDone == pc = "batch" /\ left < fitX.rows

CeilDiv(a, b) == (a + b - 1) \div b

(* C1 (as stated): in every batch of an epoch with 0-based index           *)
(* >= stop_epochs the generator part of the batch leaves the generator     *)
(* parameters as they were.                                                *)
C1_FrozenFromStopEpochs ==
    [][(pc = "gen" /\ epoch >= stop_epochs) => generator' = generator]_vars

(* C2: after every batch of an epoch with index < stop_epochs, exactly one *)
(* generator step and one discriminator step were applied in that batch,   *)
(* so both networks stand at one step per batch drawn so far.              *)
C2_GrowingBothStep ==
    (BatchJustDone /\ epoch < stop_epochs) =>
        /\ dStepsInBatch = 1 /\ gStepsInBatch = 1
        /\ discriminator.steps = batchesDrawn
        /\ generator.steps = batchesDrawn

C2_Witness ==
    /\ BatchJustDone /\ epoch < stop_epochs /\ epoch >= 1
    /\ fitX.rows > BatchCap /\ left = 0
    /\ generator.steps = batchesDrawn /\ gStepsInBatch = 1

(* C3 (as stated): fit on a valid matrix never ends by raising. *)
C3_FitNeverRaises ==
    ~(fitState = "raised" /\ check_array(fitX))

(* C4 (as stated): once a fit call on a valid (n, d) matrix has ended the  *)
(* stored score vector has n entries, and a returned decision_function     *)
(* value has as many entries as its argument has rows.                     *)
C4_ScoreLengths ==
    /\ (pc = "idle" /\ fitState \in {"done", "raised"}) =>
          (decision_scores_ # None /\ decision_scores_.len = fitX.rows)
    /\ (lastCall = "decision_function" /\ outcome = "ok") =>
          result.value.len = result.arg.rows

(* C5: decision_function on a detector on which fit was never called ends  *)
(* with the not-fitted error and returns nothing.                          *)
C5_NotFittedBeforeFit ==
    (lastCall = "decision_function" /\ fitCalls = 0) =>
        (outcome = "NotFittedError" /\ result = None)

C5_Witness ==
    /\ lastCall = "decision_function" /\ fitCalls = 0
    /\ outcome = "NotFittedError" /\ scoreCalls = MaxScores

(* C6 (as stated): while no fit call has run to completion, a fit that     *)
(* raised in training leaves the detector not fitted and decision_function *)
(* ends with the not-fitted error.                                         *)
C6_ScoreNeedsCompletedFit ==
    fitsCompleted = 0 =>
        /\ (pc = "idle" /\ fitState = "raised") => ~IsFitted(discriminator)
        /\ lastCall = "decision_function" => outcome = "NotFittedError"

(* C7: when fit has completed on n samples both loss sequences have        *)
(* 3 * stop_epochs * ceil(n / min(500, n)) entries.                        *)
C7_HistoryLength ==
    fitState = "done" =>
        LET n == fitX.rows
            bs == IF n < 500 THEN n ELSE 500
            total == 3 * stop_epochs * CeilDiv(n, bs)
        IN /\ Len(train_history.discriminator_loss) = total
           /\ Len(train_history.generator_loss) = total

C7_Witness ==
    /\ fitState = "done" /\ stop_epochs = 2 /\ fitX.rows = 2 * BatchCap
    /\ Len(train_history.discriminator_loss) = 12
    /\ Len(train_history.generator_loss) = 12

(* C8 (as stated): a fit call that has ended after passing validation ran  *)
(* exactly 3 * stop_epochs epochs.                                         *)
C8_EpochCount ==
    (pc = "idle" /\ fitState \in {"done", "raised"}) =>
        epochsRun = 3 * stop_epochs

(* C9: the discriminator has received exactly one optimizer step for every *)
(* batch drawn, in both phases; in a batch under way the step count of the *)
(* batch is one; after a completed fit the steps equal the batches         *)
(* processed, which is the number of recorded discriminator losses.        *)
C9_DiscriminatorStepEveryBatch ==
    fitState \in {"running", "done", "raised"} =>
        /\ discriminator.steps = batchesDrawn
        /\ (pc = "gen" \/ BatchJustDone) => dStepsInBatch = 1
        /\ fitState = "done" =>
              discriminator.steps = Len(train_history.discriminator_loss)

C9_Witness ==
    /\ fitState = "done" /\ stop_epochs >= 1 /\ fitX.rows = 2 * BatchCap
    /\ stop = 1
    /\ discriminator.steps = 6 * stop_epochs
    /\ generator.steps < discriminator.steps

(* C10: decision_function on the training matrix, after a completed fit    *)
(* and before any other fit call, returns the score vector that fit stored.*)
C10_ScoreReproducesFit ==
    (lastCall = "decision_function" /\ outcome = "ok" /\ fitState = "done"
        /\ result.arg = fitX) =>
        result.value = decision_scores_

C10_Witness ==
    /\ lastCall = "decision_function" /\ outcome = "ok" /\ fitState = "done"
    /\ result.arg = fitX /\ stop_epochs >= 1 /\ discriminator.steps > 0
    /\ result.value = decision_scores_

(* C11: in one fit, the generator at the end of two consecutive epochs     *)
(* that both have index >= stop_epochs is the same, and the discriminator  *)
(* is not.  snaps[i] is taken at the end of epoch i - 1.                   *)
C11_FrozenSnapshotsEqual ==
    \A i \in 1..(Len(snaps) - 1) :
        (i - 1 >= stop_epochs) =>
            /\ snaps[i + 1].g = snaps[i].g
            /\ snaps[i + 1].d # snaps[i].d

C11_Witness ==
    /\ stop_epochs >= 1
    /\ Len(snaps) >= stop_epochs + 2
    /\ snaps[stop_epochs + 2].g = snaps[stop_epochs + 1].g
    /\ snaps[stop_epochs + 1].g.steps > snaps[stop_epochs].g.steps
    /\ snaps[stop_epochs + 2].d.steps > snaps[stop_epochs + 1].d.steps

(* the inputs validation is meant to let through *)
ValidInput(X) == X.rows >= 1 /\ X.cols >= 1 /\ X.finite

(* C12: a fit call whose input fails validation ends at once and changes   *)
(* no network, history, score vector, threshold or labels; every fit call  *)
(* that goes on to construction has a valid input.                         *)
C12_InvalidFitChangesNothing ==
    [][(fitCalls' = fitCalls + 1) =>
         IF fitState' = "invalid"
           THEN /\ UNCHANGED <<discriminator, generator, train_history,
                               decision_scores_, threshold_, labels_>>
                /\ pc' = "idle" /\ outcome' = "ValueError"
           ELSE ValidInput(fitX')]_vars

C12_Witness ==
    /\ fitState = "invalid" /\ lastCall = "fit" /\ outcome = "ValueError"
    /\ fitsCompleted >= 1
    /\ decision_scores_ # None /\ threshold_ # None
    /\ Len(train_history.discriminator_loss) > 0

(* C13 (as stated): a fit call that has ended after passing validation has *)
(* assigned the score vector exactly once, and none is assigned while the  *)
(* epochs run.                                                             *)
C13_ScoresWrittenOnce ==
    /\ (pc = "idle" /\ fitState \in {"done", "raised"}) => scoreWrites = 1
    /\ pc \in {"batch", "gen", "score"} => scoreWrites = 0

IsPrefix(a, b) == Len(a) <= Len(b) /\ SubSeq(b, 1, Len(a)) = a

(* C14: within a fit call every step leaves the recorded losses as a       *)
(* prefix of the new sequences and adds at most one entry to each; at each *)
(* batch boundary both sequences have one entry per batch drawn.           *)
C14_HistoryAppendOnly ==
    [][/\ (fitCalls' = fitCalls /\ train_history # None) =>
            /\ IsPrefix(train_history.discriminator_loss,
                        train_history'.discriminator_loss)
            /\ IsPrefix(train_history.generator_loss,
                        train_history'.generator_loss)
            /\ Len(train_history'.discriminator_loss)
                 <= Len(train_history.discriminator_loss) + 1
            /\ Len(train_history'.generator_loss)
                 <= Len(train_history.generator_loss) + 1
       /\ pc' \in {"batch", "score"} =>
            /\ Len(train_history'.discriminator_loss) = batchesDrawn'
            /\ Len(train_history'.generator_loss) = batchesDrawn'
      ]_vars

C14_Witness ==
    /\ pc = "batch" /\ stop = 1 /\ batchesDrawn >= 3
    /\ Len(train_history.discriminator_loss) = batchesDrawn
    /\ Len(train_history.generator_loss) = batchesDrawn

AllZero(batch) == \A r \in DOMAIN batch : \A i \in DOMAIN batch[r] : batch[r][i] = 0

(* C15 (as stated): the first forward call of a freshly constructed        *)
(* Generator on an all-zero latent batch returns an all-zero batch,        *)
(* whatever the biases started as.                                         *)
C15_ZeroInZeroOut ==
    (gen_out # <<>> /\ AllZero(gen_in)) => AllZero(gen_out)

(* C16 (as stated): the trick labels a generator loss is computed against  *)
(* have as many rows as the batch, in the frozen branch before the loss is *)
(* computed and in both branches after it.                                 *)
C16_TrickLabelsMatchBatch ==
    /\ (pc = "gen" /\ ~GeneratorTrains(stop)) => trick_labels = batch_size
    /\ BatchJustDone => trick_labels = batch_size

BatchOrder == <<"noise", "d_loss", "d_step", "g_loss", "g_step">>

C18_OwnGradientOnly ==
    /\ pc = "gen" => applied.d = {<<"d_loss", batchesDrawn>>}
    /\ (BatchJustDone /\ gStepsInBatch = 1) =>
          applied.g = {<<"g_loss", batchesDrawn>>}

C18_Witness ==
    /\ BatchJustDone /\ gStepsInBatch = 1 /\ batchesDrawn >= 2
    /\ applied.g = {<<"g_loss", batchesDrawn>>}
    /\ applied.d = {<<"d_loss", batchesDrawn>>}
    /\ <<"g_loss", batchesDrawn>> \in d_grad

(* C19: a decision_function call, whatever its outcome, leaves both        *)
(* networks, the history and the stored scores as they were, and all the   *)
(* values returned since the last fit for one input are the same.          *)
C19_ScoreReadOnly ==
    [][(scoreCalls' = scoreCalls + 1) =>
         /\ UNCHANGED <<discriminator, generator, train_history,
                        decision_scores_, d_grad, g_grad>>
         /\ \A a, b \in seen' : a.arg = b.arg => a.value = b.value]_vars

C19_Witness ==
    /\ lastCall = "decision_function" /\ outcome = "ok"
    /\ fitState = "done" /\ discriminator.steps > 0
    /\ scoreCalls = 2 /\ Cardinality(seen) = 2
    /\ result \in seen

(* C20: the networks of a fit call are built by that call and sized to its *)
(* input, the call starts with stop = 0, its history counts only its own   *)
(* batches, and the scores it stores come from its own discriminator and   *)
(* its own input.                                                          *)
C20_FreshSession ==
    fitState \in {"running", "done", "raised"} =>
        /\ discriminator.session = fitCalls
        /\ generator.session = fitCalls
        /\ discriminator.latent_size = fitX.cols
        /\ generator.latent_size = fitX.cols
        /\ discriminator.hidden * discriminator.hidden >= fitX.rows
        /\ Len(train_history.discriminator_loss) = batchesDrawn
        /\ Len(train_history.generator_loss) \in {batchesDrawn - 1, batchesDrawn}
        /\ (batchesDrawn = 0 /\ epoch = 0) => stop = 0
        /\ fitState = "done" =>
              /\ decision_scores_.session = fitCalls
              /\ decision_scores_.input = fitX
              /\ decision_scores_.steps = discriminator.steps
              /\ Len(train_history.generator_loss) = batchesDrawn

C20_Witness ==
    /\ fitState = "done" /\ fitsCompleted = 2 /\ fitCalls = 2
    /\ stop_epochs >= 1
    /\ decision_scores_.session = 2
    /\ batchesDrawn > 0
    /\ Len(train_history.discriminator_loss) = batchesDrawn

====
